---- MODULE Spec2Model ----
(***************************************************************************)
(* A model of fx_ui_generator_V1_2.py: the shader-uniform extractor        *)
(* (parse_fx_uniforms), the INI store (parse_ini and the write loop of     *)
(* save_ini), the binding layer (update_ini_from_widgets,                  *)
(* set_widgets_from_ini, the compatibility check of load_ini) and the      *)
(* three handlers of FXUniformUI (load_fx, load_ini, save_ini).            *)
(*                                                                         *)
(* Text is modelled at character level: a Python str is a sequence of      *)
(* one-character strings, a file is the sequence of its lines.             *)
(*                                                                         *)
(* A value that a Python function computes once and uses several times is *)
(* passed on as a parameter of a helper definition.                        *)
(***************************************************************************)
EXTENDS Integers, Sequences, FiniteSets, TLC

VARIABLES
    fxfs,              \* shader files of the directory: name -> shader text
    fs,                \* INI files of the directory: name -> [exists, lines]
    fx_path,           \* self.fx_path
    ini_path,          \* self.ini_path
    uniforms,          \* self.uniforms
    widgets,           \* self.widgets: name -> widget
    config,            \* self.config (None or a ConfigParser)
    section,           \* self.section
    section_name_map,  \* self.section_name_map
    key_name_map,      \* self.key_name_map
    last,              \* the handler that ran last and how it ended
    loaded,            \* history: the file the last load_ini read
    pushed,            \* history: the widgets as of the last Push step
    steps              \* the number of handlers run so far

vars == <<fxfs, fs, fx_path, ini_path, uniforms, widgets, config, section,
          section_name_map, key_name_map, last, loaded, pushed, steps>>

\* the bounds of the model: lines of an INI text, handlers of a run, items of
\* a shader text
MaxLines == 3
MaxSteps == 4
MaxItems == 3

-----------------------------------------------------------------------------
(* Python str                                                              *)

UpperChars == <<"A","B","C","D","E","F","G","H","I","J","K","L","M",
                "N","O","P","Q","R","S","T","U","V","W","X","Y","Z">>
LowerChars == <<"a","b","c","d","e","f","g","h","i","j","k","l","m",
                "n","o","p","q","r","s","t","u","v","w","x","y","z">>
Digits == <<"0","1","2","3","4","5","6","7","8","9">>

Range(s) == {s[i] : i \in 1..Len(s)}

WordChars == Range(UpperChars) \cup Range(LowerChars) \cup Range(Digits) \cup {"_"}

\* str.lower on one character
LowerChar(c) ==
    IF \E i \in 1..26 : UpperChars[i] = c
    THEN LowerChars[CHOOSE i \in 1..26 : UpperChars[i] = c]
    ELSE c

\* str.lower
lower(s) == IF s = <<>> THEN <<>> ELSE [i \in 1..Len(s) |-> LowerChar(s[i])]

\* str.find over a set of characters, from position from; 0 when absent
IndexOf(s, chars, from) ==
    IF \E i \in from..Len(s) : s[i] \in chars
    THEN CHOOSE i \in from..Len(s) :
            s[i] \in chars /\ \A j \in from..(i-1) : s[j] \notin chars
    ELSE 0

\* str.rfind of one character; 0 when absent
LastIndexOf(s, c) ==
    IF \E i \in 1..Len(s) : s[i] = c
    THEN CHOOSE i \in 1..Len(s) : s[i] = c /\ \A j \in (i+1)..Len(s) : s[j] # c
    ELSE 0

Whitespace == {" ", "\t"}

\* str.lstrip, str.rstrip, str.strip
lstrip(s) ==
    IF \A i \in 1..Len(s) : s[i] \in Whitespace THEN <<>>
    ELSE SubSeq(s, CHOOSE i \in 1..Len(s) :
                      s[i] \notin Whitespace
                      /\ \A j \in 1..(i-1) : s[j] \in Whitespace, Len(s))
rstrip(s) ==
    IF \A i \in 1..Len(s) : s[i] \in Whitespace THEN <<>>
    ELSE SubSeq(s, 1, CHOOSE i \in 1..Len(s) :
                         s[i] \notin Whitespace
                         /\ \A j \in (i+1)..Len(s) : s[j] \in Whitespace)
strip(s) == lstrip(rstrip(s))

\* str.replace(c, '')
RemoveChar(s, c) == SelectSeq(s, LAMBDA x : x # c)

\* sub in s
Contains(s, sub) ==
    \E i \in 1..(Len(s) - Len(sub) + 1) : SubSeq(s, i, i + Len(sub) - 1) = sub

\* s.endswith(suf)
EndsWith(s, suf) ==
    Len(s) >= Len(suf) /\ SubSeq(s, Len(s) - Len(suf) + 1, Len(s)) = suf

\* Python None where a str is expected (self.section, current_section)
NoneStr == <<"<None>">>

-----------------------------------------------------------------------------
(* Python dict (unordered uses) and the ordered store of ConfigParser      *)

\* d.get(k, default)
Get(d, k, default) == IF k \in DOMAIN d THEN d[k] ELSE default

\* d[k] = v
Put(d, k, v) == [x \in (DOMAIN d) \cup {k} |-> IF x = k THEN v ELSE d[x]]

EmptyDict == <<>>

\* A ConfigParser: its sections in insertion order, each an ordered list of
\* options.  None is the value parse_ini returns for a duplicate section.
NoneConfig == [isNone |-> TRUE, secs |-> <<>>]
Store(secs) == [isNone |-> FALSE, secs |-> secs]

\* position of section name in the store, 0 when absent
SecIndex(secs, name) ==
    IF \E i \in 1..Len(secs) : secs[i].name = name
    THEN CHOOSE i \in 1..Len(secs) : secs[i].name = name
    ELSE 0

\* position of option k in a section's options, 0 when absent
OptIndex(opts, k) ==
    IF \E i \in 1..Len(opts) : opts[i].k = k
    THEN CHOOSE i \in 1..Len(opts) : opts[i].k = k
    ELSE 0

\* section in config  (ConfigParser.__contains__; the model's files and
\* shaders never name the DEFAULT section)
InConfig(cfg, name) == SecIndex(cfg.secs, name) > 0

\* config[section] as its ordered options
Options(cfg, name) == cfg.secs[SecIndex(cfg.secs, name)].opts

\* config[section].get(k, default)
OptValueAt(opts, oi, default) == IF oi > 0 THEN opts[oi].v ELSE default
OptGet(cfg, name, k, default) ==
    OptValueAt(Options(cfg, name), OptIndex(Options(cfg, name), k), default)

\* config[section][k] = v : an existing option keeps its place
OptSetAt(cfg, si, oi, k, v) ==
    [cfg EXCEPT !.secs[si].opts =
        IF oi > 0 THEN [@ EXCEPT ![oi].v = v] ELSE Append(@, [k |-> k, v |-> v])]
OptSet(cfg, name, k, v) ==
    OptSetAt(cfg, SecIndex(cfg.secs, name), OptIndex(Options(cfg, name), k), k, v)

\* config.add_section(name)
AddSection(cfg, name) ==
    [cfg EXCEPT !.secs = Append(@, [name |-> name, opts |-> <<>>])]

-----------------------------------------------------------------------------
(* parse_ini                                                               *)

sGLOBAL == <<"G","L","O","B","A","L">>
sglobal == <<"g","l","o","b","a","l">>

\* f'[{name}]' and f'{key}={value}'
HeaderLine(name) == <<"[">> \o name \o <<"]">>
KeyLine(key, value) == key \o <<"=">> \o value

\* re.match(r'^\[(.+?)\]', line) and its group(1): up to the first ']'
HeaderMatch(line) ==
    Len(line) >= 3 /\ line[1] = "[" /\ IndexOf(line, {"]"}, 3) > 0
HeaderName(line) == SubSeq(line, 2, IndexOf(line, {"]"}, 3) - 1)

\* The first pass over the raw lines: the casing maps.
\* st = [cur: current_section, snm: section_name_map, knm: key_name_map]
FirstPassHeader(st, cs) ==
    [cur |-> cs, snm |-> Put(st.snm, lower(cs), cs),
     knm |-> Put(st.knm, lower(cs), EmptyDict)]

\* key, _ = line.split('=', 1); key = key.strip(); the map entry
FirstPassKey(st, key) ==
    [st EXCEPT !.knm[lower(st.cur)] = Put(@, lower(key), key)]

FirstPassLine(st, line) ==
    IF HeaderMatch(line) THEN FirstPassHeader(st, HeaderName(line))
    ELSE IF IndexOf(line, {"="}, 1) > 0 /\ st.cur # NoneStr
    THEN FirstPassKey(st, strip(SubSeq(line, 1, IndexOf(line, {"="}, 1) - 1)))
    ELSE st

RECURSIVE FirstPass(_, _, _)
FirstPass(lines, i, st) ==
    IF i > Len(lines) THEN st
    ELSE FirstPass(lines, i + 1, FirstPassLine(st, lines[i]))

\* re.match(r'\s*\[.*?\]', content): the first character that is not
\* whitespace is '[' and a ']' follows it on the same line
StartsWithHeader(lines) ==
    \E i \in 1..Len(lines) :
        /\ \A j \in 1..(i-1) : strip(lines[j]) = <<>>
        /\ strip(lines[i]) # <<>>
        /\ lstrip(lines[i])[1] = "["
        /\ IndexOf(lstrip(lines[i]), {"]"}, 2) > 0

\* group(1) of r'^(\w+)\s*=' on one line; <<>> when the line has no '='
WordKey(line) == rstrip(SubSeq(line, 1, IndexOf(line, {"="}, 1) - 1))
IsWord(k) == k # <<>> /\ \A i \in 1..Len(k) : k[i] \in WordChars

\* {k: k for k in re.findall(r'^(\w+)\s*=', content, re.MULTILINE)}
GlobalKeyMap(lines) ==
    [k \in {WordKey(lines[j]) : j \in {m \in 1..Len(lines) : IsWord(WordKey(lines[m]))}}
        |-> k]

\* configparser's SECTCRE on the stripped line: '[', then up to the LAST ']'
SectMatch(value) ==
    Len(value) >= 3 /\ value[1] = "[" /\ LastIndexOf(value, "]") >= 3
SectHeader(value) == SubSeq(value, 2, LastIndexOf(value, "]") - 1)

\* ConfigParser.read_string with strict=True, delimiters '=' and ':',
\* interpolation=None and optionxform=str, over lines that hold no comment
\* and no continuation (none starts with whitespace, '#' or ';').
\* st = [secs, cur: index of cursect (0: None), perr: a ParsingError is
\*       pending, exc: the exception raised]
ReadHeader(st, sectname) ==
    IF SecIndex(st.secs, sectname) > 0
    THEN [st EXCEPT !.exc = "DuplicateSectionError"]
    ELSE [st EXCEPT !.secs = Append(@, [name |-> sectname, opts |-> <<>>]),
                    !.cur = Len(st.secs) + 1]

ReadOption(st, optname, optval) ==
    IF OptIndex(st.secs[st.cur].opts, optname) > 0
    THEN [st EXCEPT !.exc = "DuplicateOptionError"]
    ELSE [st EXCEPT !.secs[st.cur].opts = Append(@, [k |-> optname, v |-> optval]),
                    !.perr = @ \/ optname = <<>>]

\* an option line whose first delimiter is at d (0: none)
ReadOptionLine(st, value, d) ==
    IF d = 0 THEN [st EXCEPT !.perr = TRUE]
    ELSE ReadOption(st, rstrip(SubSeq(value, 1, d - 1)),
                    strip(SubSeq(value, d + 1, Len(value))))

ReadLine(st, value) ==
    IF value = <<>> THEN st
    ELSE IF SectMatch(value) THEN ReadHeader(st, SectHeader(value))
    ELSE IF st.cur = 0 THEN [st EXCEPT !.exc = "MissingSectionHeaderError"]
    ELSE ReadOptionLine(st, value, IndexOf(value, {"=", ":"}, 1))

RECURSIVE ReadLines(_, _, _)
ReadLines(lines, i, st) ==
    IF st.exc # "none" THEN st
    ELSE IF i > Len(lines)
    THEN (IF st.perr THEN [st EXCEPT !.exc = "ParsingError"] ELSE st)
    ELSE ReadLines(lines, i + 1, ReadLine(st, strip(lines[i])))

read_string(lines) ==
    ReadLines(lines, 1, [secs |-> <<>>, cur |-> 0, perr |-> FALSE, exc |-> "none"])

\* what parse_ini returns.  n is the length of the tuple; err is its fourth
\* element (or "none"); exc is the exception that escapes parse_ini instead
\* ("none": it returns).
Parsed(n, cfg, snm, knm, err, exc) ==
    [n |-> n, config |-> cfg, section_name_map |-> snm, key_name_map |-> knm,
     err |-> err, exc |-> exc]

\* try: config.read_string(content) except DuplicateSectionError
ParseResult(r, snm, knm) ==
    IF r.exc = "DuplicateSectionError"
    THEN Parsed(4, NoneConfig, snm, knm, "DuplicateSectionError", "none")
    ELSE Parsed(4, Store(r.secs), snm, knm, "none", r.exc)

\* the text without a leading header gets '[GLOBAL]\n' in front
ParsePrefixed(content, p1) ==
    ParseResult(read_string(content), Put(p1.snm, sglobal, sGLOBAL),
                Put(p1.knm, sglobal, GlobalKeyMap(content)))

ParseText(lines, p1) ==
    IF StartsWithHeader(lines) THEN ParseResult(read_string(lines), p1.snm, p1.knm)
    ELSE ParsePrefixed(<<HeaderLine(sGLOBAL)>> \o lines, p1)

\* parse_ini(ini_path), file = fs[ini_path]
parse_ini(file) ==
    IF ~file.exists
    THEN Parsed(3, Store(<<>>), EmptyDict, EmptyDict, "none", "none")
    ELSE ParseText(file.lines,
                   FirstPass(file.lines, 1,
                             [cur |-> NoneStr, snm |-> EmptyDict, knm |-> EmptyDict]))

-----------------------------------------------------------------------------
(* The write loop of save_ini                                              *)

\* the key=value lines of one section, keys through the casing map
OptionLines(opts, keymap) ==
    IF opts = <<>> THEN <<>>
    ELSE [i \in 1..Len(opts) |->
            KeyLine(Get(keymap, opts[i].k, opts[i].k), opts[i].v)]

\* for section in self.config.sections(): ...
RECURSIVE WriteSections(_, _, _, _, _)
WriteSections(secs, i, wrote_any, snm, knm) ==
    IF i > Len(secs) THEN <<>>
    ELSE IF secs[i].name = sGLOBAL
    THEN WriteSections(secs, i + 1, wrote_any, snm, knm)
    ELSE (IF wrote_any THEN << <<>> >> ELSE <<>>)
         \o <<HeaderLine(Get(snm, lower(secs[i].name), secs[i].name))>>
         \o OptionLines(secs[i].opts, Get(knm, lower(secs[i].name), EmptyDict))
         \o WriteSections(secs, i + 1, TRUE, snm, knm)

\* the lines written to self.ini_path
WriteLoop(cfg, snm, knm) ==
    (IF InConfig(cfg, sGLOBAL)
     THEN OptionLines(Options(cfg, sGLOBAL), Get(knm, sglobal, EmptyDict))
     ELSE <<>>)
    \o WriteSections(cfg.secs, 1, InConfig(cfg, sGLOBAL), snm, knm)

-----------------------------------------------------------------------------
(* Python numbers.  An int is [ty |-> "int", v |-> n]; a float is          *)
(* [ty |-> "float", v |-> m] with m in units of 10^-Decimals, which is     *)
(* exact for the values a QDoubleSpinBox of that many decimals holds.      *)
(* Exponent forms, inf and nan are outside the model's values.             *)

Decimals == 6
Micro == 10 ^ Decimals

PyFloat(m) == [ty |-> "float", v |-> m]

IsDigits(s) == s # <<>> /\ \A i \in 1..Len(s) : s[i] \in Range(Digits)
DigitVal(c) == (CHOOSE i \in 1..10 : Digits[i] = c) - 1

RECURSIVE NatOf(_)
NatOf(s) == IF s = <<>> THEN 0
            ELSE 10 * NatOf(SubSeq(s, 1, Len(s) - 1)) + DigitVal(s[Len(s)])

RECURSIVE StrNat(_)
StrNat(n) == IF n < 10 THEN <<Digits[n + 1]>>
             ELSE StrNat(n \div 10) \o <<Digits[(n % 10) + 1]>>

\* str(n) of an int
StrInt(n) == IF n < 0 THEN <<"-">> \o StrNat(-n) ELSE StrNat(n)

\* the sign and the unsigned rest of a stripped numeric literal
Unsigned(s) == IF s # <<>> /\ s[1] \in {"-", "+"} THEN Tail(s) ELSE s
SignOf(s) == IF s # <<>> /\ s[1] = "-" THEN -1 ELSE 1

\* int(s): [ok, v]; ok = FALSE is ValueError
IntOf(s) ==
    IF IsDigits(Unsigned(s))
    THEN [ok |-> TRUE, v |-> SignOf(s) * NatOf(Unsigned(s))]
    ELSE [ok |-> FALSE, v |-> 0]
ParseInt(str) == IntOf(strip(str))

\* the first Decimals digits of a fraction, as a number of 10^-Decimals
RECURSIVE FracOf(_, _)
FracOf(s, n) == IF n = 0 THEN 0
                ELSE (IF s = <<>> THEN 0 ELSE DigitVal(s[1]) * (10 ^ (n - 1)))
                     + FracOf(IF s = <<>> THEN s ELSE Tail(s), n - 1)

\* the digits before and after the point at dot (0: no point)
IntPart(u, dot) == IF dot = 0 THEN u ELSE SubSeq(u, 1, dot - 1)
FracPart(u, dot) == IF dot = 0 THEN <<>> ELSE SubSeq(u, dot + 1, Len(u))

\* Digits past the Decimals-th are rounded on the next digit, as
\* QDoubleSpinBox rounds.
FloatOfParts(sign, ip, fp) ==
    IF /\ ip \o fp # <<>>
       /\ \A i \in 1..Len(ip) : ip[i] \in Range(Digits)
       /\ \A i \in 1..Len(fp) : fp[i] \in Range(Digits)
    THEN [ok |-> TRUE,
          v |-> sign * (NatOf(ip) * Micro + FracOf(fp, Decimals)
                        + (IF Len(fp) > Decimals /\ DigitVal(fp[Decimals + 1]) >= 5
                           THEN 1 ELSE 0))]
    ELSE [ok |-> FALSE, v |-> 0]

FloatOf(sign, u) ==
    FloatOfParts(sign, IntPart(u, IndexOf(u, {"."}, 1)), FracPart(u, IndexOf(u, {"."}, 1)))

\* float(s): [ok, v]; ok = FALSE is ValueError
ParseFloat(str) == FloatOf(SignOf(strip(str)), Unsigned(strip(str)))

\* the digits of a fraction without its trailing zeros, at least one
RECURSIVE FracDigits(_, _)
FracDigits(fr, n) ==
    IF n = 1 \/ fr % (10 ^ (n - 1)) = 0
    THEN <<Digits[(fr \div (10 ^ (n - 1))) + 1]>>
    ELSE <<Digits[(fr \div (10 ^ (n - 1))) + 1]>> \o FracDigits(fr % (10 ^ (n - 1)), n - 1)

\* str(x) of a float: '0.5', '7.0', '-1.25'
StrAbsFloat(a) == StrNat(a \div Micro) \o <<".">> \o FracDigits(a % Micro, Decimals)
StrFloat(m) == IF m < 0 THEN <<"-">> \o StrAbsFloat(-m) ELSE StrAbsFloat(m)

\* int(x) of a float: truncation toward zero
TruncFloat(m) == IF m < 0 THEN -((-m) \div Micro) ELSE m \div Micro

Clamp(v, lo, hi) == IF v < lo THEN lo ELSE IF v > hi THEN hi ELSE v

\* value.lower() in ('1', 'true', 'yes')
Truthy(value) ==
    lower(value) \in {<<"1">>, <<"t","r","u","e">>, <<"y","e","s">>}

-----------------------------------------------------------------------------
(* parse_fx_uniforms.  A shader text is the sequence of its items:         *)
(*   [t |-> "define", name, value]            #define name value           *)
(*   [t |-> "uniform", type, name, meta, default, term]                    *)
(*       uniform type name < k=v; ... > = default;   (the final ';' only   *)
(*       when term; meta is the sequence of its [k, v] entries)            *)

k_ui_min == <<"u","i","_","m","i","n">>
k_ui_max == <<"u","i","_","m","a","x">>
k_ui_step == <<"u","i","_","s","t","e","p">>
k_ui_type == <<"u","i","_","t","y","p","e">>
k_ui_items == <<"u","i","_","i","t","e","m","s">>
t_int == <<"i","n","t">>
t_float == <<"f","l","o","a","t">>
t_bool == <<"b","o","o","l">>
t_float3 == <<"f","l","o","a","t","3">>
v_combo == <<"c","o","m","b","o">>
v_slider == <<"s","l","i","d","e","r">>
v_drag == <<"d","r","a","g">>
s_uniform == <<"u","n","i","f","o","r","m">>
s_define == <<"#","d","e","f","i","n","e">>

\* group(2) of r'#define\s+(\w+)\s+([\d\.]+)': the numeric prefix of the value
RECURSIVE NumPrefix(_)
NumPrefix(s) ==
    IF s = <<>> \/ s[1] \notin (Range(Digits) \cup {"."}) THEN <<>>
    ELSE <<s[1]>> \o NumPrefix(Tail(s))

\* defines: the last definition of a name wins
RECURSIVE Defines(_, _, _)
Defines(text, i, d) ==
    IF i > Len(text) THEN d
    ELSE IF text[i].t = "define" /\ NumPrefix(text[i].value) # <<>>
    THEN Defines(text, i + 1, Put(d, text[i].name, NumPrefix(text[i].value)))
    ELSE Defines(text, i + 1, d)

\* dict(meta_pattern.findall(meta)): the last entry of a key wins
RECURSIVE MetaDict(_, _, _)
MetaDict(meta, i, d) ==
    IF i > Len(meta) THEN d
    ELSE MetaDict(meta, i + 1, Put(d, meta[i].k, meta[i].v))

\* re.match(r'^-?\d+(\.\d+)?$', v)
IsUnsignedLiteral(u, dot) ==
    IF dot = 0 THEN IsDigits(u)
    ELSE IsDigits(SubSeq(u, 1, dot - 1)) /\ IsDigits(SubSeq(u, dot + 1, Len(u)))
IsNumericLiteral(v) ==
    IF v # <<>> /\ v[1] = "-"
    THEN IsUnsignedLiteral(Tail(v), IndexOf(Tail(v), {"."}, 1))
    ELSE IsUnsignedLiteral(v, IndexOf(v, {"."}, 1))

\* ui_min / ui_max that name a #define, or the fallback '0' / '100'
ResolveKey(md, k, defines) ==
    IF k \in DOMAIN md /\ md[k] # <<>> /\ ~IsNumericLiteral(md[k])
    THEN Put(md, k, IF md[k] \in DOMAIN defines THEN defines[md[k]]
                    ELSE IF k = k_ui_min THEN <<"0">> ELSE <<"1","0","0">>)
    ELSE md

Declaration(item, default, defines) ==
    [type |-> item.type, name |-> item.name,
     meta |-> ResolveKey(ResolveKey(MetaDict(item.meta, 1, EmptyDict),
                                    k_ui_min, defines), k_ui_max, defines),
     default |-> strip(default)]

\* whether the item's text holds a ';'
HasSemicolon(item) == item.t = "uniform" /\ (item.meta # <<>> \/ item.term)

\* the first item after i whose text holds a ';', 0 when none
NextSemicolon(text, i) ==
    IF \E j \in (i+1)..Len(text) : HasSemicolon(text[j])
    THEN CHOOSE j \in (i+1)..Len(text) :
            HasSemicolon(text[j]) /\ \A m \in (i+1)..(j-1) : ~HasSemicolon(text[m])
    ELSE 0

\* pattern.finditer(text): a block without its ';' takes as its default
\* ([^;]+) the text up to the next ';' (at item j) and swallows the items up
\* to there
RECURSIVE FindUniforms(_, _, _)
Unterminated(text, i, j, defines) ==
    IF j = 0 THEN FindUniforms(text, i + 1, defines)
    ELSE <<Declaration(text[i],
               text[i].default \o <<"\n">>
               \o (IF text[i + 1].t = "uniform" THEN s_uniform ELSE s_define),
               defines)>>
         \o FindUniforms(text, j + 1, defines)

FindUniforms(text, i, defines) ==
    IF i > Len(text) THEN <<>>
    ELSE IF text[i].t # "uniform" THEN FindUniforms(text, i + 1, defines)
    ELSE IF text[i].term
    THEN <<Declaration(text[i], text[i].default, defines)>>
         \o FindUniforms(text, i + 1, defines)
    ELSE Unterminated(text, i, NextSemicolon(text, i), defines)

parse_fx_uniforms(text) == FindUniforms(text, 1, Defines(text, 1, EmptyDict))

-----------------------------------------------------------------------------
(* Widgets.  [kind, val, lo, hi, n]: kind is combo (val: currentIndex, n:  *)
(* count of items), spin (QSpinBox, val: int), dspin (QDoubleSpinBox, val  *)
(* lo hi in units of 10^-Decimals), check (val: BOOLEAN) or line           *)
(* (QLineEdit, val: text).                                                 *)

\* the number of non-empty items of s.split('\\0')
RECURSIVE CountItems(_, _)
CountItems(s, open) ==
    IF s = <<>> THEN (IF open THEN 1 ELSE 0)
    ELSE IF Len(s) >= 2 /\ s[1] = "\\" /\ s[2] = "0"
    THEN (IF open THEN 1 ELSE 0) + CountItems(SubSeq(s, 3, Len(s)), FALSE)
    ELSE CountItems(Tail(s), TRUE)

\* QComboBox.setCurrentIndex: an index outside the items leaves none current
ComboSetIndex(w, i) == [w EXCEPT !.val = IF 0 <= i /\ i < w.n THEN i ELSE -1]

\* QSpinBox.setValue(val: int): the binding raises TypeError for a float
SpinSetValue(w, x) ==
    IF x.ty = "int" THEN [ok |-> TRUE, w |-> [w EXCEPT !.val = Clamp(x.v, w.lo, w.hi)]]
    ELSE [ok |-> FALSE, w |-> w]

\* QDoubleSpinBox.setValue(val: float)
DSpinSetValue(w, x) ==
    [ok |-> TRUE,
     w |-> [w EXCEPT !.val = Clamp(IF x.ty = "int" THEN x.v * Micro ELSE x.v,
                                   w.lo, w.hi)]]

\* float(meta.get(k, dflt)): [ok, v]
MetaFloat(meta, k, dflt) ==
    IF k \in DOMAIN meta THEN ParseFloat(meta[k]) ELSE [ok |-> TRUE, v |-> dflt * Micro]

IsSpinKind(u) ==
    /\ Get(u.meta, k_ui_type, NoneStr) # v_combo
    /\ \/ Get(u.meta, k_ui_type, NoneStr) \in {v_slider, v_drag}
       \/ u.type \in {t_int, t_float}

\* make_widget raises ValueError: ui_min, ui_max or ui_step is not a float
MakeWidgetRaises(u) ==
    IsSpinKind(u) /\ \E k \in {k_ui_min, k_ui_max, k_ui_step} : ~MetaFloat(u.meta, k, 0).ok

\* setMinimum(lo); setMaximum(hi) on a spin box of Qt's initial range 0..top
\* and value 0 (setMinimum above the maximum raises the maximum, setMaximum
\* below the minimum lowers the minimum), then the try: setValue(v)
SpinRange(kind, lo, hi, v) == [kind |-> kind, lo |-> lo, hi |-> hi, n |-> 0, val |-> v]
SpinBox(kind, lo, hi, top, hasDefault, v) ==
    SpinRange(kind, IF lo < hi THEN lo ELSE hi, hi,
              IF hasDefault THEN Clamp(v, IF lo < hi THEN lo ELSE hi, hi)
              ELSE Clamp(Clamp(0, lo, IF top > lo THEN top ELSE lo),
                         IF lo < hi THEN lo ELSE hi, hi))

\* the combo branch: n items, d = int(u['default'])
Combo(n, d) ==
    IF d.ok
    THEN ComboSetIndex([kind |-> "combo", val |-> IF n > 0 THEN 0 ELSE -1,
                        lo |-> 0, hi |-> 0, n |-> n], d.v)
    ELSE [kind |-> "combo", val |-> IF n > 0 THEN 0 ELSE -1,
          lo |-> 0, hi |-> 0, n |-> n]

\* the slider / drag / int / float branch: d = float(u['default'])
Spin(type, minv, maxv, d) ==
    IF type = t_int
    THEN SpinBox("spin", TruncFloat(minv), TruncFloat(maxv), 99, d.ok, TruncFloat(d.v))
    ELSE SpinBox("dspin", minv, maxv, 99 * Micro + 990000, d.ok, d.v)

make_widget(u) ==
    IF Get(u.meta, k_ui_type, NoneStr) = v_combo
    THEN Combo(CountItems(Get(u.meta, k_ui_items, <<>>), FALSE), ParseInt(u.default))
    ELSE IF IsSpinKind(u)
    THEN Spin(u.type, MetaFloat(u.meta, k_ui_min, 0).v, MetaFloat(u.meta, k_ui_max, 100).v,
              ParseFloat(u.default))
    ELSE IF u.type = t_bool
    THEN [kind |-> "check", val |-> Truthy(u.default), lo |-> 0, hi |-> 0, n |-> 0]
    ELSE [kind |-> "line", val |-> u.default, lo |-> 0, hi |-> 0, n |-> 0]

\* the form with the first declaration of a name kept
RECURSIVE build_form_first(_, _, _)
build_form_first(us, i, ws) ==
    IF i > Len(us) THEN ws
    ELSE build_form_first(us, i + 1,
            IF us[i].name \in DOMAIN ws THEN ws
            ELSE Put(ws, us[i].name, make_widget(us[i])))

\* build_form: self.widgets[u['name']] = make_widget(u), in order
RECURSIVE build_form(_, _, _)
build_form(us, i, ws) ==
    IF i > Len(us) THEN ws
    ELSE build_form(us, i + 1, Put(ws, us[i].name, make_widget(us[i])))

-----------------------------------------------------------------------------
(* The binding layer                                                       *)

\* the string update_ini_from_widgets writes for a widget
WidgetString(w) ==
    CASE w.kind = "combo" -> StrInt(w.val)
      [] w.kind = "spin"  -> StrInt(w.val)
      [] w.kind = "dspin" -> StrFloat(w.val)
      [] w.kind = "check" -> IF w.val THEN <<"1">> ELSE <<"0">>
      [] OTHER            -> w.val

\* for u in uniforms: config[section][name] = value
RECURSIVE PushValues(_, _, _, _, _)
PushValues(cfg, sec, us, i, ws) ==
    IF i > Len(us) THEN cfg
    ELSE IF us[i].name \notin DOMAIN ws THEN PushValues(cfg, sec, us, i + 1, ws)
    ELSE PushValues(OptSet(cfg, sec, us[i].name, WidgetString(ws[us[i].name])),
                    sec, us, i + 1, ws)

\* update_ini_from_widgets: [config, exc].  add_section(None) raises
\* TypeError (section names must be strings).
update_ini_from_widgets(cfg, sec, us, ws) ==
    IF ~InConfig(cfg, sec) /\ sec = NoneStr
    THEN [config |-> cfg, exc |-> "TypeError"]
    ELSE [config |-> PushValues(IF InConfig(cfg, sec) THEN cfg ELSE AddSection(cfg, sec),
                                sec, us, 1, ws),
          exc |-> "none"]

\* the try block of set_widgets_from_ini for one widget: an exception
\* (ValueError of int() / float(), TypeError of setValue) leaves it as it is
SetIndexTo(w, i) == IF i.ok THEN ComboSetIndex(w, i.v) ELSE w
SetValueTo(w, x) ==
    IF ~x.ok THEN w
    ELSE IF w.kind = "spin" THEN SpinSetValue(w, PyFloat(x.v)).w
    ELSE DSpinSetValue(w, PyFloat(x.v)).w

SetWidget(w, value) ==
    CASE w.kind = "combo" -> SetIndexTo(w, ParseInt(value))
      [] w.kind \in {"spin", "dspin"} -> SetValueTo(w, ParseFloat(value))
      [] w.kind = "check" -> [w EXCEPT !.val = Truthy(value)]
      [] OTHER -> [w EXCEPT !.val = value]

RECURSIVE PullValues(_, _, _, _, _)
PullValues(cfg, sec, us, i, ws) ==
    IF i > Len(us) THEN ws
    ELSE IF us[i].name \notin DOMAIN ws THEN PullValues(cfg, sec, us, i + 1, ws)
    ELSE PullValues(cfg, sec, us, i + 1,
            [ws EXCEPT ![us[i].name] =
                SetWidget(@, OptGet(cfg, sec, us[i].name, us[i].default))])

\* set_widgets_from_ini: the widgets afterwards
set_widgets_from_ini(cfg, sec, us, ws) ==
    IF ~InConfig(cfg, sec) THEN ws ELSE PullValues(cfg, sec, us, 1, ws)

\* a check on the names as they are spelled
normkey_exact(k) == k

\* normkey of load_ini
normkey(k) == lower(RemoveChar(k, "_"))

\* set(normkey(k) for k in self.config[self.section].keys()), or set()
IniKeys(cfg, sec) ==
    IF InConfig(cfg, sec)
    THEN {normkey(Options(cfg, sec)[i].k) : i \in 1..Len(Options(cfg, sec))}
    ELSE {}

\* fx_keys - ini_keys of load_ini
MissingKeys(cfg, sec, us) ==
    {normkey(us[i].name) : i \in 1..Len(us)} \ IniKeys(cfg, sec)

\* orig_fx of load_ini: the declaration names behind the missing keys
OrigFx(us, missing) ==
    SelectSeq([i \in 1..Len(us) |-> us[i].name], LAMBDA n : normkey(n) \in missing)

-----------------------------------------------------------------------------
(* The handlers of FXUniformUI                                             *)

\* outcomes that are exceptions escaping the handler
Exceptions == {"KeyError", "TypeError", "ValueError", "DuplicateOptionError",
               "ParsingError", "MissingSectionHeaderError"}

\* what load_ini leaves behind: the store, the maps, the widgets, the names
\* it reported missing and how it ended
Ended(cfg, snm, knm, ws, missing, outcome) ==
    [config |-> cfg, section_name_map |-> snm, key_name_map |-> knm,
     widgets |-> ws, missing |-> missing, outcome |-> outcome]

\* the result r of parse_ini has been assigned to self
Assigned(r, ws, missing, outcome) ==
    Ended(r.config, r.section_name_map, r.key_name_map, ws, missing, outcome)

\* load_ini from the compatibility check on.  After the check,
\* self.config[self.section] is read again for the window title.
CheckLayout(r, missing, us, sec, ws) ==
    IF missing # {} THEN Assigned(r, ws, OrigFx(us, missing), "LayoutMismatch")
    ELSE IF ~InConfig(r.config, sec) THEN Assigned(r, ws, <<>>, "KeyError")
    ELSE Assigned(r, set_widgets_from_ini(r.config, sec, us, ws), <<>>, "loaded")

\* load_ini from the result r of parse_ini on
LoadParsed(r, us, sec, ws, cfg, snm, knm) ==
    IF r.exc # "none" THEN Ended(cfg, snm, knm, ws, <<>>, r.exc)
    ELSE IF r.n = 4 /\ r.config.isNone THEN Assigned(r, ws, <<>>, "DuplicateSection")
    ELSE CheckLayout(r, MissingKeys(r.config, sec, us), us, sec, ws)

\* load_ini(ini_path) after self.ini_path = ini_path, from self.uniforms us,
\* self.section sec, self.widgets ws and the store cfg, snm, knm held so far
load_ini(file, us, sec, ws, cfg, snm, knm) ==
    LoadParsed(parse_ini(file), us, sec, ws, cfg, snm, knm)

\* os.path.basename, os.path.dirname, os.path.splitext(...)[0]
basename(path) == SubSeq(path, LastIndexOf(path, "/") + 1, Len(path))
dirname(path) == SubSeq(path, 1, LastIndexOf(path, "/") - 1)
splitext_root(name) ==
    IF LastIndexOf(name, ".") > 1 THEN SubSeq(name, 1, LastIndexOf(name, ".") - 1)
    ELSE name

s_ini == <<".","i","n","i">>

\* find_ini_for_fx: the files it may return.  os.listdir gives the
\* directory in arbitrary order and the first match is returned, so any
\* match may be; no match is None.
find_ini_for_fx(path, files) ==
    {p \in DOMAIN files :
        /\ files[p].exists
        /\ dirname(p) = dirname(path)
        /\ EndsWith(lower(basename(p)), s_ini)
        /\ Contains(lower(basename(p)), lower(splitext_root(basename(path))))}

\* the declarations build_form reaches before make_widget raises
Buildable(us) ==
    IF \E i \in 1..Len(us) : MakeWidgetRaises(us[i])
    THEN SubSeq(us, 1, (CHOOSE i \in 1..Len(us) :
                            MakeWidgetRaises(us[i])
                            /\ \A j \in 1..(i-1) : ~MakeWidgetRaises(us[j])) - 1)
    ELSE us

\* an unhandled exception in a slot ends the application (PyQt's default)
Crashed == last.outcome \in Exceptions

\* one more handler has run; a run has at most MaxSteps of them
Step == steps < MaxSteps /\ steps' = steps + 1

Result(op, ini, outcome, missing) ==
    [op |-> op, ini |-> ini, outcome |-> outcome, missing |-> missing]

\* history: load_ini (or parse_ini) read file and ended in outcome; clean
\* until the store or the declarations change again
Loaded(file, outcome) ==
    [ran |-> TRUE, file |-> file, outcome |-> outcome, clean |-> TRUE]

\* the assignments of load_ini(p) that ended as r, within handler op
ApplyLoad(op, p, r) ==
    /\ ini_path' = p
    /\ config' = r.config
    /\ section_name_map' = r.section_name_map
    /\ key_name_map' = r.key_name_map
    /\ widgets' = r.widgets
    /\ last' = Result(op, TRUE, r.outcome, r.missing)
    /\ loaded' = Loaded(fs[p], r.outcome)

\* load_fx that ends without a load_ini
FormOnly(ws, outcome) ==
    /\ widgets' = ws
    /\ last' = Result("load_fx", FALSE, outcome, <<>>)
    /\ loaded' = [loaded EXCEPT !.clean = FALSE]
    /\ UNCHANGED <<ini_path, config, section_name_map, key_name_map>>

\* load_fx from build_form on: ws is the form, complete unless make_widget
\* raised, found the files find_ini_for_fx may return
LoadFxForm(f, us, complete, ws, found) ==
    /\ fx_path' = f
    /\ uniforms' = us
    /\ section' = basename(f)
    /\ IF ~complete THEN FormOnly(ws, "ValueError")
       ELSE IF found = {} THEN FormOnly(ws, "fx_loaded")
       ELSE \E p \in found :
               ApplyLoad("load_fx", p,
                         load_ini(fs[p], us, basename(f), ws, config,
                                  section_name_map, key_name_map))

LoadFxBuild(f, us, buildable) ==
    LoadFxForm(f, us, buildable = us, build_form(buildable, 1, EmptyDict),
               find_ini_for_fx(f, fs))

LoadFxParsed(f, us) == LoadFxBuild(f, us, Buildable(us))

\* load_fx(fx_path), with the load_ini of the file find_ini_for_fx finds
LoadFx(f) ==
    /\ ~Crashed
    /\ Step
    /\ LoadFxParsed(f, parse_fx_uniforms(fxfs[f]))
    /\ UNCHANGED <<fxfs, fs, pushed>>

\* load_ini(ini_path)
LoadIni(p) ==
    /\ ~Crashed
    /\ Step
    /\ ApplyLoad("load_ini", p,
                 load_ini(fs[p], uniforms, section, widgets, config,
                          section_name_map, key_name_map))
    /\ UNCHANGED <<fxfs, fs, fx_path, uniforms, section, pushed>>

\* save_ini after the guard: r is what update_ini_from_widgets did
SavePushed(r) ==
    IF r.exc # "none"
    THEN /\ last' = Result("save_ini", FALSE, r.exc, <<>>)
         /\ UNCHANGED <<fs, config, loaded>>
    ELSE /\ config' = r.config
         /\ fs' = [fs EXCEPT ![ini_path] =
                      [exists |-> TRUE,
                       lines |-> WriteLoop(r.config, section_name_map, key_name_map)]]
         /\ loaded' = [loaded EXCEPT !.clean = FALSE]
         /\ last' = Result("save_ini", FALSE, "saved", <<>>)

\* save_ini().  The keystroke sent to the game window afterwards is outside
\* the model.
SaveIni ==
    /\ ~Crashed
    /\ Step
    /\ IF ini_path = NoneStr \/ config.isNone
       THEN /\ last' = Result("save_ini", FALSE, "refused", <<>>)
            /\ UNCHANGED <<fs, config, loaded>>
       ELSE SavePushed(update_ini_from_widgets(config, section, uniforms, widgets))
    /\ UNCHANGED <<fxfs, fx_path, ini_path, uniforms, widgets, section,
                   section_name_map, key_name_map, pushed>>

\* the values the user gives a widget in the model
EditValues(w) ==
    CASE w.kind = "combo" -> 0..(w.n - 1)
      [] w.kind = "spin"  -> {v \in {3, 7} : w.lo <= v /\ v <= w.hi}
      [] w.kind = "dspin" -> {v \in {Micro \div 2, 7 * Micro} : w.lo <= v /\ v <= w.hi}
      [] w.kind = "check" -> BOOLEAN
      [] OTHER            -> {<<"x">>}

\* the user edits one widget of the form
Edit(name, v) ==
    /\ ~Crashed
    /\ Step
    /\ name \in DOMAIN widgets
    /\ v \in EditValues(widgets[name])
    /\ v # widgets[name].val
    /\ widgets' = [widgets EXCEPT ![name].val = v]
    /\ last' = Result("edit", FALSE, "edited", <<>>)
    /\ UNCHANGED <<fxfs, fs, fx_path, ini_path, uniforms, config, section,
                   section_name_map, key_name_map, loaded, pushed>>

-----------------------------------------------------------------------------
(* Files and shaders of the model: one directory                           *)

Dir == <<"d">>
Path(name) == Dir \o <<"/">> \o name

A_fx == <<"A",".","f","x">>
B_fx == <<"B",".","f","x">>
Z_fx == <<"Z",".","f","x">>
a_ini == <<"a",".","i","n","i">>
n_ini == <<"n",".","i","n","i">>

nAb == <<"A","b">>
nab == <<"a","b">>
na_b == <<"a","_","b">>
nC_d == <<"C","_","d">>
ncd == <<"c","d">>
nC == <<"C">>
nI == <<"I">>
nF == <<"F">>
nB == <<"B">>
nT == <<"T">>
nMAXV == <<"M","A","X","V">>

Uniform(type, name, meta, default, term) ==
    [t |-> "uniform", type |-> type, name |-> name, meta |-> meta,
     default |-> default, term |-> term]
Define(name, value) == [t |-> "define", name |-> name, value |-> value]

\* the texts of at most n lines (items) over an alphabet
Texts(alphabet, n) == UNION {[1..k -> alphabet] : k \in 0..n}

Absent == [exists |-> FALSE, lines |-> <<>>]
File(lines) == [exists |-> TRUE, lines |-> lines]
Files(a, n) == (Path(a_ini) :> a) @@ (Path(n_ini) :> n)

\* FXUniformUI() before any handler ran
InitSession ==
    /\ fx_path = NoneStr
    /\ ini_path = NoneStr
    /\ uniforms = <<>>
    /\ widgets = EmptyDict
    /\ config = NoneConfig
    /\ section = NoneStr
    /\ section_name_map = EmptyDict
    /\ key_name_map = EmptyDict
    /\ last = Result("init", FALSE, "none", <<>>)
    /\ loaded = [ran |-> FALSE, file |-> Absent, outcome |-> "none",
                 clean |-> FALSE]
    /\ pushed = EmptyDict
    /\ steps = 0

-----------------------------------------------------------------------------
(* The session: two shaders, a.ini with any text or no INI file at all,    *)
(* and at most MaxSteps handlers                                           *)

\* A.fx declares one float; Z.fx declares none (its only block lacks the
\* ';' and no ';' follows it)
SessionShaders ==
    (Path(A_fx) :> << Uniform(t_float, nAb, <<>>, <<"1",".","0">>, TRUE) >>)
    @@ (Path(Z_fx) :> << Define(nMAXV, <<"2",".","0">>),
                         Uniform(t_float, nC, <<>>, <<"0",".","5">>, FALSE) >>)

SessionLines ==
    { HeaderLine(A_fx), HeaderLine(lower(A_fx)), HeaderLine(Z_fx),
      KeyLine(nAb, <<"7">>), KeyLine(na_b, <<"3">>), <<"j">> }

\* the lines of the longer texts: one header, one key
RepeatLines == { HeaderLine(A_fx), KeyLine(nAb, <<"7">>) }

Init ==
    /\ fxfs = SessionShaders
    /\ fs \in {Files(File(t), Absent) : t \in Texts(SessionLines, MaxLines)}
              \cup {Files(File(t), Absent) : t \in [1..(MaxLines + 1) -> RepeatLines]}
              \cup {Files(Absent, Absent)}
    /\ InitSession

\* one handler of the session
Next ==
    \/ \E f \in DOMAIN fxfs : LoadFx(f)
    \/ \E p \in DOMAIN fs : LoadIni(p)
    \/ SaveIni
    \/ \E name \in DOMAIN widgets : \E v \in EditValues(widgets[name]) : Edit(name, v)

Spec == Init /\ [][Next]_vars

-----------------------------------------------------------------------------
(* Loading: a shader of two declarations against any INI text              *)

LoadShaders ==
    (Path(A_fx) :> << Uniform(t_float, nAb, <<>>, <<"1",".","0">>, TRUE),
                      Uniform(t_bool, nC_d, <<>>, <<"0">>, TRUE) >>)
    @@ (Path(Z_fx) :> << Define(nMAXV, <<"2",".","0">>) >>)

LoadLines ==
    { HeaderLine(A_fx), HeaderLine(Z_fx), KeyLine(nAb, <<"7">>),
      KeyLine(na_b, <<"3">>), KeyLine(ncd, <<"1">>), KeyLine(nC, <<"1">>) }

InitLoad ==
    /\ fxfs = LoadShaders
    /\ fs \in {Files(File(t), Absent) : t \in Texts(LoadLines, MaxLines)}
    /\ InitSession

NextLoad ==
    \/ \E f \in DOMAIN fxfs : LoadFx(f)
    \/ \E p \in DOMAIN fs : LoadIni(p)

SpecLoad == InitLoad /\ [][NextLoad]_vars

-----------------------------------------------------------------------------
(* The extractor: load_fx of any shader text of at most MaxItems items,    *)
(* with no INI file in the directory                                       *)

FxItems ==
    { Uniform(t_float, nAb, <<>>, <<"1",".","0">>, TRUE),
      Uniform(t_float, nAb, <<>>, <<"2",".","0">>, TRUE),
      Uniform(t_bool, nC, <<>>, <<"1">>, TRUE),
      Uniform(t_bool, nAb, <<>>, <<"0">>, FALSE),
      Define(nMAXV, <<"2",".","0">>) }

InitFx ==
    /\ fxfs \in {(Path(A_fx) :> t) : t \in Texts(FxItems, MaxItems)}
    /\ fs = Files(Absent, Absent)
    /\ InitSession

NextFx == \E f \in DOMAIN fxfs : LoadFx(f)

SpecFx == InitFx /\ [][NextFx]_vars

-----------------------------------------------------------------------------
(* The store alone: parse_ini of any text, the write loop of save_ini on   *)
(* the parsed store, parse_ini of what was written                         *)

IniLines ==
    { HeaderLine(A_fx), HeaderLine(lower(A_fx)), HeaderLine(sglobal),
      KeyLine(nAb, <<"7">>), KeyLine(nab, <<"3">>), <<"j">> }

InitIni ==
    /\ fxfs = SessionShaders
    /\ fs \in {Files(File(t), Absent) : t \in Texts(IniLines, MaxLines)}
    /\ InitSession

\* the outcome of parse_ini alone
ParseOutcome(r) ==
    IF r.exc # "none" THEN r.exc
    ELSE IF r.config.isNone THEN "DuplicateSection" ELSE "parsed"

\* self.config, self.section_name_map, self.key_name_map = parse_ini(p);
\* an exception leaves them as they were
ParsedIni(p, r) ==
    /\ ini_path' = p
    /\ config' = IF r.exc # "none" THEN config ELSE r.config
    /\ section_name_map' = IF r.exc # "none" THEN section_name_map
                           ELSE r.section_name_map
    /\ key_name_map' = IF r.exc # "none" THEN key_name_map ELSE r.key_name_map
    /\ last' = Result("parse_ini", TRUE, ParseOutcome(r), <<>>)
    /\ loaded' = Loaded(fs[p], ParseOutcome(r))

ParseIni(p) ==
    /\ fs[p].exists
    /\ Step
    /\ ParsedIni(p, parse_ini(fs[p]))
    /\ UNCHANGED <<fxfs, fs, fx_path, uniforms, widgets, section, pushed>>

\* the write loop of save_ini on the store as parsed
WriteIni ==
    /\ last.op = "parse_ini"
    /\ Step
    /\ last.outcome = "parsed"
    /\ fs' = [fs EXCEPT ![ini_path] =
                 File(WriteLoop(config, section_name_map, key_name_map))]
    /\ last' = Result("write", FALSE, "written", <<>>)
    /\ UNCHANGED <<fxfs, fx_path, ini_path, uniforms, widgets, config, section,
                   section_name_map, key_name_map, loaded, pushed>>

NextIni ==
    \/ \E p \in DOMAIN fs : ParseIni(p)
    \/ WriteIni

SpecIni == InitIni /\ [][NextIni]_vars

-----------------------------------------------------------------------------
(* The binding layer alone: the form of a shader with one declaration of   *)
(* each kind, an empty store; push, edit, pull                             *)

BindShader ==
    << Uniform(t_int, nI, <<>>, <<"1">>, TRUE),
       Uniform(t_float, nF, <<>>, <<"1",".","0">>, TRUE),
       Uniform(t_bool, nB, <<>>, <<"0">>, TRUE),
       Uniform(t_float3, nT, <<>>, <<"a">>, TRUE) >>

\* after load_fx(B.fx) and a load_ini of a file that does not exist
InitBind ==
    /\ fxfs = (Path(B_fx) :> BindShader)
    /\ fs = Files(Absent, Absent)
    /\ fx_path = Path(B_fx)
    /\ ini_path = Path(n_ini)
    /\ uniforms = parse_fx_uniforms(BindShader)
    /\ widgets = build_form(parse_fx_uniforms(BindShader), 1, EmptyDict)
    /\ config = Store(<<>>)
    /\ section = B_fx
    /\ section_name_map = EmptyDict
    /\ key_name_map = EmptyDict
    /\ last = Result("init", FALSE, "none", <<>>)
    /\ loaded = [ran |-> FALSE, file |-> Absent, outcome |-> "none",
                 clean |-> FALSE]
    /\ pushed = EmptyDict
    /\ steps = 0

\* update_ini_from_widgets did r; pushed remembers what each widget held
PushedAs(r) ==
    /\ config' = r.config
    /\ pushed' = IF r.exc # "none" THEN pushed
                 ELSE [n \in DOMAIN widgets |-> widgets[n].val]
    /\ last' = Result("push", FALSE, IF r.exc # "none" THEN r.exc ELSE "pushed", <<>>)

\* update_ini_from_widgets(config, section, uniforms, widgets)
Push ==
    /\ ~Crashed
    /\ Step
    /\ PushedAs(update_ini_from_widgets(config, section, uniforms, widgets))
    /\ UNCHANGED <<fxfs, fs, fx_path, ini_path, uniforms, widgets, section,
                   section_name_map, key_name_map, loaded>>

\* set_widgets_from_ini(config, section, uniforms, widgets)
Pull ==
    /\ ~Crashed
    /\ Step
    /\ widgets' = set_widgets_from_ini(config, section, uniforms, widgets)
    /\ last' = Result("pull", FALSE, "pulled", <<>>)
    /\ UNCHANGED <<fxfs, fs, fx_path, ini_path, uniforms, config, section,
                   section_name_map, key_name_map, loaded, pushed>>

NextBind ==
    \/ Push
    \/ Pull
    \/ \E name \in DOMAIN widgets : \E v \in EditValues(widgets[name]) : Edit(name, v)

SpecBind == InitBind /\ [][NextBind]_vars

-----------------------------------------------------------------------------
(* What a reader sees in an INI text, independently of parse_ini: a line   *)
(* '[name]' opens section name, a line 'key=value' belongs to the section  *)
(* opened last, or to GLOBAL before the first header.                      *)

RefIsHeader(line) == Len(line) >= 3 /\ line[1] = "[" /\ line[Len(line)] = "]"
RefIsKey(line) == ~RefIsHeader(line) /\ \E i \in 1..Len(line) : line[i] = "="
RefName(line) == SubSeq(line, 2, Len(line) - 1)
RefEq(line) == CHOOSE i \in 1..Len(line) : line[i] = "=" /\ \A j \in 1..(i-1) : line[j] # "="

\* the section line i belongs to
RefSectionAt(lines, i) ==
    IF \E h \in 1..i : RefIsHeader(lines[h])
    THEN RefName(lines[CHOOSE h \in 1..i :
                          RefIsHeader(lines[h])
                          /\ \A m \in (h+1)..i : ~RefIsHeader(lines[m])])
    ELSE sGLOBAL

\* the names of the headers, in file order, GLOBAL left out
RefHeaders(lines) ==
    LET names == [i \in 1..Len(lines) |->
                    IF RefIsHeader(lines[i]) THEN RefName(lines[i]) ELSE sGLOBAL]
    IN  SelectSeq(names, LAMBDA n : n # sGLOBAL)

\* how many headers name section s
RefCount(lines, s) ==
    Cardinality({i \in 1..Len(lines) : RefIsHeader(lines[i]) /\ RefName(lines[i]) = s})

\* the entries <<section, key, value>> of the text
RefEntry(lines, i) ==
    <<RefSectionAt(lines, i), SubSeq(lines[i], 1, RefEq(lines[i]) - 1),
      SubSeq(lines[i], RefEq(lines[i]) + 1, Len(lines[i]))>>
RefEntries(lines) == {RefEntry(lines, i) : i \in {j \in 1..Len(lines) : RefIsKey(lines[j])}}

\* the <<key, value>> lines of section s, in file order
RefKeysOf(lines, s) ==
    LET idx == {j \in 1..Len(lines) : RefIsKey(lines[j]) /\ RefSectionAt(lines, j) = s}
        Ord == [i \in 1..Len(lines) |-> IF i \in idx THEN <<RefEntry(lines, i)>> ELSE <<>>]
        Flat[i \in 0..Len(lines)] == IF i = 0 THEN <<>> ELSE Flat[i-1] \o Ord[i]
    IN  Flat[Len(lines)]

\* the entries and the section names of a store
StoreEntries(cfg) ==
    UNION {{<<cfg.secs[i].name, cfg.secs[i].opts[j].k, cfg.secs[i].opts[j].v>> :
               j \in 1..Len(cfg.secs[i].opts)} : i \in 1..Len(cfg.secs)}
StoreSections(cfg) == {cfg.secs[i].name : i \in 1..Len(cfg.secs)}

\* a name without its underscores, in lower case
RECURSIVE Normal(_)
Normal(s) ==
    IF s = <<>> THEN <<>>
    ELSE IF s[1] = "_" THEN Normal(Tail(s))
    ELSE <<LowerChar(s[1])>> \o Normal(Tail(s))

\* the keys of the target section
KeysOf(cfg, sec) ==
    IF cfg.isNone \/ ~InConfig(cfg, sec) THEN {}
    ELSE {Options(cfg, sec)[i].k : i \in 1..Len(Options(cfg, sec))}

\* the values stored under the keys of the target section that match name
MatchedValues(cfg, sec, name) ==
    IF cfg.isNone \/ ~InConfig(cfg, sec) THEN {}
    ELSE {Options(cfg, sec)[i].v :
             i \in {j \in 1..Len(Options(cfg, sec)) :
                       Normal(Options(cfg, sec)[j].k) = Normal(name)}}

\* widget w shows the stored text v
Shows(w, v) ==
    CASE w.kind = "dspin" -> ParseFloat(v).ok /\ ParseFloat(v).v = w.val
      [] w.kind = "spin"  -> ParseInt(v).ok /\ ParseInt(v).v = w.val
      [] w.kind = "combo" -> ParseInt(v).ok /\ ParseInt(v).v = w.val
      [] w.kind = "check" -> w.val = Truthy(v)
      [] OTHER            -> w.val = v

DeclNames(us) == {us[i].name : i \in 1..Len(us)}

\* this step is a load_ini (alone or within load_fx)
LoadStep == steps' = steps + 1 /\ last'.op \in {"load_ini", "load_fx"} /\ last'.ini
SaveStep == steps' = steps + 1 /\ last'.op = "save_ini"

\* the widgets of a form nothing was loaded into
Untouched ==
    widgets' = IF last'.op = "load_ini" THEN widgets
               ELSE build_form(uniforms', 1, EmptyDict)

-----------------------------------------------------------------------------
(* The claims                                                              *)

\* C1: after a successful load and any edits, save_ini keeps every section
\* of the loaded file (once, under its name) and every key of it, with its
\* value, other than the keys of the target section named by a declaration.
C1_SaveKeepsTheRest ==
    [][(SaveStep /\ last'.outcome = "saved" /\ loaded.ran /\ loaded.clean
        /\ loaded.outcome = "loaded")
       => /\ \A s \in Range(RefHeaders(loaded.file.lines)) :
                RefCount(fs'[ini_path].lines, s) = RefCount(loaded.file.lines, s)
          /\ \A e \in RefEntries(loaded.file.lines) :
                \/ e[1] = section /\ e[2] \in DeclNames(uniforms)
                \/ e \in RefEntries(fs'[ini_path].lines)]_vars

\* C1, the failing case reached: the file [A.fx] Ab=7 [a.fx] was loaded for
\* A.fx and saved, and the saved text has no header [A.fx] any more.
C1_SectionRenamed ==
    /\ last.op = "save_ini" /\ last.outcome = "saved"
    /\ loaded.outcome = "loaded"
    /\ loaded.file.lines = <<HeaderLine(A_fx), KeyLine(nAb, <<"7">>), HeaderLine(lower(A_fx))>>
    /\ RefCount(fs[ini_path].lines, A_fx) = 0
    /\ RefCount(fs[ini_path].lines, lower(A_fx)) = 2

\* C2: for every text parse_ini accepts, the write loop on the parsed store
\* gives back the headers in their order and casing (GLOBAL apart) and, for
\* each section, its keys and values in their order and casing.
C2_WriteGivesBackTheText ==
    (last.op = "write" /\ loaded.outcome = "parsed")
    => /\ RefHeaders(fs[ini_path].lines) = RefHeaders(loaded.file.lines)
       /\ \A s \in Range(RefHeaders(loaded.file.lines)) \cup {sGLOBAL} :
             RefKeysOf(fs[ini_path].lines, s) = RefKeysOf(loaded.file.lines, s)

\* C2, the failing case reached: [A.fx] ab=3 Ab=7 was parsed and written
\* as [A.fx] Ab=3 Ab=7.
C2_KeyRenamed ==
    /\ last.op = "write"
    /\ loaded.file.lines
          = <<HeaderLine(A_fx), KeyLine(nab, <<"3">>), KeyLine(nAb, <<"7">>)>>
    /\ fs[ini_path].lines
          = <<HeaderLine(A_fx), KeyLine(nAb, <<"3">>), KeyLine(nAb, <<"7">>)>>

\* a header occurs twice in the text
RepeatedHeader(lines) ==
    \E i, j \in 1..Len(lines) : i < j /\ RefIsHeader(lines[i]) /\ lines[i] = lines[j]

\* C3: a load of a text in which a header occurs twice ends in
\* DuplicateSection with a null store and no widget populated, and a
\* save_ini right after a DuplicateSection refuses and writes nothing.
C3_DuplicateSectionIsFatal ==
    [][/\ (LoadStep /\ fs[ini_path'].exists /\ RepeatedHeader(fs[ini_path'].lines))
          => (last'.outcome = "DuplicateSection" /\ config'.isNone /\ Untouched)
       /\ (SaveStep /\ last.outcome = "DuplicateSection")
          => (last'.outcome = "refused" /\ fs' = fs)]_vars

\* C3, the failing case reached: a load of [A.fx] Ab=7 Ab=7 [A.fx] ended in
\* a DuplicateOptionError that parse_ini does not catch.
C3_DuplicateOptionFirst ==
    /\ last.outcome = "DuplicateOptionError"
    /\ RepeatedHeader(fs[ini_path].lines)
    /\ fs[ini_path].lines[1] = HeaderLine(A_fx)

\* C4: a load that reaches the compatibility check passes it exactly when
\* every declaration name equals, underscores removed and in lower case,
\* some key of the target section; when it fails, the names reported are
\* exactly the declaration names without such a key and no widget is
\* populated.
C4_CompatibilityCheck ==
    [][(LoadStep /\ last'.outcome \in {"loaded", "KeyError", "LayoutMismatch"})
       => /\ (last'.outcome # "LayoutMismatch")
              <=> (\A n \in DeclNames(uniforms') :
                      MatchedValues(config', section', n) # {})
          /\ (last'.outcome = "LayoutMismatch")
              => /\ Range(last'.missing)
                      = {n \in DeclNames(uniforms') :
                            MatchedValues(config', section', n) = {}}
                 /\ Len(last'.missing) = Cardinality(Range(last'.missing))
                 /\ Untouched]_vars

\* C4 happens: section [A.fx] holds a_b and an extra key C, so Ab is
\* matched through normalisation and C_d alone is reported.
C4_OneMatchedOneMissing ==
    /\ last.outcome = "LayoutMismatch"
    /\ last.missing = <<nC_d>>
    /\ KeysOf(config, section) = {na_b, nC}

\* C5: every load_ini ends in values loaded, DuplicateSection or
\* LayoutMismatch; no exception escapes it.
C5_LoadIsClassified ==
    (last.op \in {"load_ini", "load_fx"} /\ last.ini)
    => last.outcome \in {"loaded", "DuplicateSection", "LayoutMismatch"}

\* C5, the failing case reached: with no shader loaded, load_ini of a text
\* parse_ini accepts ended in a KeyError.
C5_KeyErrorEscapes ==
    /\ last.op = "load_ini" /\ last.outcome = "KeyError"
    /\ fx_path = NoneStr
    /\ ~config.isNone

\* C6: a load of a path that does not exist gives an empty store and empty
\* maps and reports neither DuplicateSection nor LayoutMismatch, and the
\* save_ini after it creates the file with the target section holding the
\* current value of every declaration.
C6_MissingFileIsAFreshStore ==
    [][/\ (LoadStep /\ ~fs[ini_path'].exists)
          => /\ config' = Store(<<>>)
             /\ section_name_map' = EmptyDict /\ key_name_map' = EmptyDict
             /\ last'.outcome \notin {"DuplicateSection", "LayoutMismatch"}
       /\ (SaveStep /\ loaded.ran /\ loaded.clean /\ ~loaded.file.exists)
          => /\ last'.outcome = "saved"
             /\ fs'[ini_path].exists
             /\ RefCount(fs'[ini_path].lines, section) = 1
             /\ \A n \in DeclNames(uniforms) :
                   <<section, n, WidgetString(widgets[n])>>
                       \in RefEntries(fs'[ini_path].lines)]_vars

\* C6, the failing case reached: with A.fx loaded, load_ini of the missing
\* n.ini reported a LayoutMismatch naming Ab.
C6_MissingFileReported ==
    /\ last.op = "load_ini" /\ last.outcome = "LayoutMismatch"
    /\ ~fs[ini_path].exists
    /\ last.missing = <<nAb>>

\* C7: after a push, a pull leaves every widget holding the value it held
\* at the push, whatever it held just before the pull.
C7_PullGivesBackThePush ==
    (last.op = "pull" /\ pushed # EmptyDict)
    => \A n \in DOMAIN pushed : widgets[n].val = pushed[n]

\* C7, the failing case reached: the integer widget was pushed as 1, edited
\* to 3 and still holds 3 after the pull, the other kinds hold what was
\* pushed.
C7_IntegerNotPulled ==
    /\ last.op = "pull"
    /\ pushed # EmptyDict
    /\ pushed[nI] = 1 /\ widgets[nI].val = 3
    /\ \A n \in DOMAIN pushed \ {nI} : widgets[n].val = pushed[n]

\* the uniform blocks of a shader text are all terminated
AllTerminated(text) == \A i \in 1..Len(text) : text[i].t = "uniform" => text[i].term

\* us follows the order of the uniform blocks of text
InSourceOrder(us, text) ==
    \E f \in [1..Len(us) -> 1..Len(text)] :
        /\ \A i, j \in 1..Len(us) : i < j => f[i] < f[j]
        /\ \A i \in 1..Len(us) :
              /\ text[f[i]].t = "uniform"
              /\ text[f[i]].name = us[i].name
              /\ text[f[i]].type = us[i].type

\* the last declaration of name n
LastOf(us, n) ==
    us[CHOOSE i \in 1..Len(us) :
          us[i].name = n /\ \A j \in (i+1)..Len(us) : us[j].name # n]

\* C8 as stated: the list of parse_fx_uniforms is in source order and holds
\* each name at most once.
C8_NamesUnique ==
    (last.op = "load_fx")
    => /\ InSourceOrder(uniforms, fxfs[fx_path])
       /\ \A i, j \in 1..Len(uniforms) :
             uniforms[i].name = uniforms[j].name => i = j

\* C8, amended: the list of parse_fx_uniforms is in source order and holds
\* one entry for every matched block, a repeated name repeatedly (every
\* block, when all are terminated); the widgets of build_form hold one
\* widget per name, made from the last declaration of that name.
C8_ListKeepsAllFormKeepsLast ==
    (last.op = "load_fx")
    => /\ InSourceOrder(uniforms, fxfs[fx_path])
       /\ AllTerminated(fxfs[fx_path])
             => Len(uniforms)
                  = Cardinality({i \in 1..Len(fxfs[fx_path]) :
                                    fxfs[fx_path][i].t = "uniform"})
       /\ DOMAIN widgets = DeclNames(uniforms)
       /\ \A n \in DeclNames(uniforms) : widgets[n] = make_widget(LastOf(uniforms, n))

\* C8 happens: Ab is declared twice, the list holds both declarations and
\* the widget shows the default of the second.
C8_DeclaredTwice ==
    /\ last.op = "load_fx"
    /\ Len(uniforms) = 2
    /\ uniforms[1].name = nAb /\ uniforms[2].name = nAb
    /\ uniforms[1].default = <<"1",".","0">> /\ uniforms[2].default = <<"2",".","0">>
    /\ widgets[nAb].val = 2 * Micro

\* C9: the text the write loop wrote parses again without an error and
\* gives a store with the sections, keys and values of the store written.
C9_WrittenTextIsAccepted ==
    [][(last.op = "write" /\ last'.op = "parse_ini")
       => /\ last'.outcome = "parsed"
          /\ StoreSections(config') = StoreSections(config)
          /\ StoreEntries(config') = StoreEntries(config)]_vars

\* C9, the failing case reached: [A.fx] [a.fx] was written as [a.fx] [a.fx]
\* and parsing that ended in DuplicateSection.
C9_WrittenTextRefused ==
    /\ last.op = "parse_ini" /\ last.outcome = "DuplicateSection"
    /\ fs[ini_path].lines = <<HeaderLine(lower(A_fx)), <<>>, HeaderLine(lower(A_fx))>>

\* C10: after a load that passed the check, every widget shows the value
\* stored under a key that matched its declaration, and a save_ini with no
\* edit in between leaves the target section with the keys it had.
C10_BoundToTheMatchedKey ==
    [][/\ (LoadStep /\ last'.outcome = "loaded")
          => \A n \in DeclNames(uniforms') :
                \E v \in MatchedValues(config', section', n) : Shows(widgets'[n], v)
       /\ (SaveStep /\ last.op \in {"load_ini", "load_fx"} /\ last.outcome = "loaded"
           /\ last'.outcome = "saved")
          => KeysOf(config', section) = KeysOf(config, section)]_vars

\* C10, the failing case reached: [A.fx] a_b=3 passed the check for Ab, the
\* widget shows the default 1.0, and the save added the key Ab.
C10_SecondKeyAdded ==
    /\ last.op = "save_ini" /\ last.outcome = "saved"
    /\ loaded.file.lines = <<HeaderLine(A_fx), KeyLine(na_b, <<"3">>)>>
    /\ widgets[nAb].val = Micro
    /\ KeysOf(config, section) = {na_b, nAb}

====
